---- MODULE Spec2Model ----
(***************************************************************************)
(* Model of benchmarking/FeynmanBenchmark/feynman_results_analysis.py:     *)
(* the walk of assess_equivalence over a Pareto front, the per-run body of *)
(* the main loop, the unfinished-jobs file and the per-problem checkpoint  *)
(* of the three result tables.                                             *)
(*                                                                         *)
(* Encodings.  Rewards and R2 values are integers in hundredths (0.6 is    *)
(* 60).  Python's None / True / False in the three report sub-flags are    *)
(* the strings "None" / "True" / "False"; a dataframe that could not be    *)
(* loaded (None) is a record with loaded = FALSE.  Python rows are         *)
(* 0-based, sequences here are 1-based: python row k is element k + 1, so  *)
(* the most complex candidate (last row) is element Len(rows).  A mean or  *)
(* a median of integers is an exact fraction [num, den] in lowest terms.   *)
(***************************************************************************)
EXTENDS Integers, Sequences, FiniteSets, TLC

\* ------------------------------------------------------------------ bounds
\* Longest Pareto front explored when a single run is analysed.
MaxFront == 3
\* Longest Pareto front explored when a whole batch of runs is analysed.
BatchMaxFront == 1

\* ------------------------------------------------------- program constants
\* R_LIM = 0.6, in hundredths.
R_LIM == 60
\* Feyn.N_EQS and fconfig.N_TRIALS: configured outside this file; the batch
\* explored here has N_EQS problems of N_TRIALS trials each.
N_EQS == 2
N_TRIALS == 2
\* fconfig.MAX_N_EVALUATIONS and fconfig.CONFIG["learning_config"]["batch_size"],
\* configured outside this file.
MAX_N_EVALUATIONS == 4
BATCH_SIZE == 1

ALGORITHM == "PhySO"
DATA_GROUP == "Feynman"

\* ----------------------------------------------------------------- helpers
RECURSIVE GCD(_, _)
GCD(a, b) == IF b = 0 THEN a ELSE GCD(b, a % b)

Abs(x) == IF x < 0 THEN -x ELSE x

\* The exact value n / d (d > 0) in lowest terms.
Frac(n, d) ==
    LET g == GCD(Abs(n), d)
    IN  [num |-> n \div g, den |-> d \div g]

Last(s) == s[Len(s)]

SeqsUpTo(S, lo, hi) == UNION { [1..n -> S] : n \in lo..hi }

RECURSIVE SumSeq(_)
SumSeq(s) == IF s = <<>> THEN 0 ELSE s[1] + SumSeq(Tail(s))

RECURSIVE Insert(_, _)
Insert(x, s) ==
    IF s = <<>> THEN <<x>>
    ELSE IF x <= s[1] THEN <<x>> \o s
    ELSE <<s[1]>> \o Insert(x, Tail(s))

RECURSIVE Sort(_)
Sort(s) == IF s = <<>> THEN <<>> ELSE Insert(s[1], Sort(Tail(s)))

\* -------------------------------------------------------------- the reports
NegativeReport(tag) ==
    [ symbolic_error                |-> "",
      symbolic_fraction             |-> "",
      symbolic_error_is_zero        |-> "None",
      symbolic_error_is_constant    |-> "None",
      symbolic_fraction_is_constant |-> "None",
      sympy_exception               |-> tag,
      symbolic_solution             |-> FALSE ]

\* The report of the except branch of assess_equivalence.
ExceptReportUntagged == NegativeReport("")
ExceptReport == NegativeReport("Timeout")

\* The report of the low reward branch of assess_equivalence.
LowRewardReport == NegativeReport("LowReward")

\* The report of a run whose Pareto front could not be loaded.
NoFrontReportShortTag == NegativeReport("NoFrontFile")
NoFrontReport == NegativeReport("NoParetoFrontFile")

\* What Feynman_pb.compare_expression can return: (is_equivalent, report) with
\* is_equivalent = report.symbolic_solution; one equivalent and one not
\* equivalent comparison are told apart.
CompareReports ==
    { [ symbolic_error                |-> "0",
        symbolic_fraction             |-> "1",
        symbolic_error_is_zero        |-> "True",
        symbolic_error_is_constant    |-> "True",
        symbolic_fraction_is_constant |-> "True",
        sympy_exception               |-> "",
        symbolic_solution             |-> TRUE ],
      [ symbolic_error                |-> "x - y",
        symbolic_fraction             |-> "x/y",
        symbolic_error_is_zero        |-> "False",
        symbolic_error_is_constant    |-> "False",
        symbolic_fraction_is_constant |-> "False",
        sympy_exception               |-> "",
        symbolic_solution             |-> FALSE ] }

\* How a call of timed_compare_expr can end without returning: the 20 s alarm
\* of the timeout wrapper, or an exception of the comparison itself.
RaiseKinds == {"timeout", "error"}

\* ------------------------------------------------------------ the artifacts
\* Reward of a front row, in hundredths.
Rewards == {30, 60, 90}
\* The expression cell of a front row: a formula, or text that does not parse.
ExprCells == {"x*y", "(("}
FrontRows == [reward : Rewards, expression : ExprCells]
\* Rows of a front whose expression column holds numbers only: read_csv gives
\* the column a numeric type and the cells are floats, not text.
NumericRows == [reward : Rewards, expression : {"1.0"}]
NotLoaded == [loaded |-> FALSE, rows |-> <<>>]
Loaded(rows) == [loaded |-> TRUE, rows |-> rows]

\* A row of SR_curves_data.csv.
MaxCurveRows == 2
CurveRows == { [epoch |-> -1, n_rewarded |-> 0] } \cup
             [epoch : {0}, n_rewarded : 1..(MAX_N_EVALUATIONS \div 2)]

\* The explored set-ups: "single", one run with every front and curve file up
\* to the bounds; "batch", N_EQS x N_TRIALS runs with short fronts; "lookup",
\* two runs of one problem over every content of the results directory;
\* "metrics", one run with every way the four metric evaluations can end.
Configs == {"single", "batch", "lookup", "metrics"}

n_eqs(c) == IF c = "batch" THEN N_EQS ELSE 1
n_trials(c) == IF c \in {"single", "metrics"} THEN 1 ELSE N_TRIALS
\* The --noise argument of the script.
NOISE_LVL(c) == 0

\* What SR_curves_pareto.csv of a run folder can hold.
Fronts(c) ==
    CASE c = "single" ->
            {NotLoaded} \cup { Loaded(r) : r \in SeqsUpTo(FrontRows, 0, MaxFront) }
                        \cup { Loaded(r) : r \in SeqsUpTo(NumericRows, 1, MaxFront) }
      [] c = "batch" ->
            {NotLoaded} \cup
            { Loaded(r) : r \in SeqsUpTo([reward : {90}, expression : {"x*y"}],
                                         1, BatchMaxFront) }
      [] c = "lookup" ->
            { Loaded(<< [reward |-> 90, expression |-> "x*y"] >>) }
      [] c = "metrics" ->
            { NotLoaded, Loaded(<< [reward |-> 90, expression |-> "x*y"] >>) }

\* What SR_curves_data.csv of a run folder can hold.
Curves(c) ==
    CASE c = "single" ->
            {NotLoaded} \cup { Loaded(r) : r \in SeqsUpTo(CurveRows, 0, MaxCurveRows) }
      [] c = "batch" ->
            { NotLoaded,
              Loaded(<< [epoch |-> 0, n_rewarded |-> 1] >>),
              Loaded(<< [epoch |-> 0, n_rewarded |-> MAX_N_EVALUATIONS \div 2],
                        [epoch |-> 0, n_rewarded |-> MAX_N_EVALUATIONS \div 2] >>) }
      [] c \in {"lookup", "metrics"} ->
            { Loaded(<< [epoch |-> 0, n_rewarded |-> MAX_N_EVALUATIONS] >>) }

\* ---------------------------------------------------- the results directory
\* Folder names are sequences of characters.
DigitChar(d) == << "0", "1", "2", "3", "4", "5", "6", "7", "8", "9" >>[d + 1]
RECURSIVE Digits(_)
\* "%s" % n of a natural number.
Digits(n) == IF n < 10 THEN << DigitChar(n) >>
             ELSE Digits(n \div 10) \o << DigitChar(n % 10) >>

\* Line 350: "FR_%s_%s" % (i_eq, i_trial).
pb_folder_prefix(eq, trial) ==
    << "F", "R", "_" >> \o Digits(eq) \o << "_" >> \o Digits(trial)

\* The folder a run of the campaign writes to: the prefix, then the noise level.
run_folder(eq, trial) == pb_folder_prefix(eq, trial) \o << "_", "0" >>

\* A folder of the results directory that is not a run folder of the campaign;
\* the listings also hold the folder of trial 10 of a campaign of more trials.
OtherFolder == << "o", "l", "d", "_" >> \o run_folder(0, 1)

\* What os.listdir(RESULTS_PATH) can return, as a set: the order of the
\* listing is arbitrary.
Listings(c) ==
    CASE c = "single" -> { {}, {run_folder(0, 0)} }
      [] c = "metrics" -> { {run_folder(0, 0)} }
      [] c = "batch" ->
            { { run_folder(eq, trial) : eq \in 0..(N_EQS - 1),
                                       trial \in 0..(N_TRIALS - 1) } }
      [] c = "lookup" ->
            SUBSET { run_folder(0, 0), run_folder(0, 1),
                     run_folder(0, 10), OtherFolder }

\* No folder: pb_folder stays the empty list of line 249.
NoFolder == << >>

\* The test metrics of a run record, and no metric evaluation on record.
Metrics == {"mse", "mae", "r2", "r2_zero"}
NoLog == [ front |-> FALSE, outcome |-> [m \in Metrics |-> "none"] ]

\* How the evaluation of a test metric can end: a number, not-a-number, or an
\* exception.
MetricOutcomes(c) ==
    CASE c = "metrics" -> {"value", "nan", "raise"}
      [] c = "single" -> {"value", "nan"}
      [] OTHER -> {"value"}

\* Whether Feyn.clean_sympy_expr can fail on a parsed expression.
SimplifyOutcomes(c) == IF c = "single" THEN {"ok", "raise"} ELSE {"ok"}

\* The problems of the benchmark: Feyn.FeynmanProblem(i_eq).
SRBench_name(eq) == <<"feynman", eq>>
true_model(eq) == <<"formula", eq>>

\* ------------------------------------------------------------------- state
VARIABLES
    config,             \* the set-up analysed
    folders,            \* os.listdir(RESULTS_PATH)
    pc,                 \* position in the script
    i_eq, i_trial,      \* loop variables of the main loop
    all_results,        \* list of run records
    unfinished_jobs,    \* list of re-launch commands
    jobfile,            \* content of PATH_UNFINISHED_JOBFILE
    results_detailed,   \* content of results_detailed.csv
    results_summary,    \* content of results_summary.csv
    results_essential,  \* content of results_summary_essential.csv
    pareto_df,          \* Pareto front of the run being analysed
    curves_df,          \* curves data of the run being analysed
    pb_folder,          \* load_run_data: the run folder found ("" when none)
    best_expr,          \* module-level best_expr, kept from run to run
    run_result,         \* run record being built
    i,                  \* assess_equivalence: row being examined (0: loop over)
    equivalence_list, report_list,   \* assess_equivalence: the two lists
    equivalence_report, \* report handed to the run record
    events,             \* history: what happened to each examined row
    warned,             \* history: "not the most Pareto accurate" warning emitted
    metric_log          \* history: how the metric evaluations of the last run ended

vars == << config, folders, pc, i_eq, i_trial, all_results, unfinished_jobs,
           jobfile, results_detailed, results_summary, results_essential,
           pareto_df, curves_df, pb_folder, best_expr, run_result, i,
           equivalence_list, report_list, equivalence_report, events, warned,
           metric_log >>

batch_vars == << all_results, unfinished_jobs, jobfile, results_detailed,
                 results_summary, results_essential >>
walk_vars == << i, equivalence_list, report_list, events >>

NoRecord == [started |-> FALSE]
NoReport == NegativeReport("unset")

\* "python feynman_run.py -i %i -t %i -n %f" % (i_eq, i_trial, noise_lvl)
Command(eq, trial, noise) == [script |-> "feynman_run.py", i |-> eq, t |-> trial, n |-> noise]

\* What PATH_UNFINISHED_JOBFILE can hold when the script starts: nothing, or
\* the job list written by an earlier analysis of the same results folder.
InitialJobfiles == { <<>>, << Command(0, 0, 0) >> }

Init ==
    /\ config \in Configs
    /\ folders \in Listings(config)
    /\ pc = "problem"
    /\ i_eq = 0
    /\ i_trial = 0
    /\ all_results = <<>>
    /\ unfinished_jobs = <<>>
    /\ jobfile \in InitialJobfiles
    /\ results_detailed = <<>>
    /\ results_summary = <<>>
    /\ results_essential = <<>>
    /\ pareto_df = NotLoaded
    /\ curves_df = NotLoaded
    /\ pb_folder = NoFolder
    /\ best_expr = "undefined"
    /\ run_result = NoRecord
    /\ i = 0
    /\ equivalence_list = <<>>
    /\ report_list = <<>>
    /\ equivalence_report = NoReport
    /\ events = <<>>
    /\ warned = FALSE
    /\ metric_log = NoLog

\* ------------------------------------------------- load_pareto_expressions
\* sympy's parse_expr on an expression cell: the expression, or an exception.
Parses(cell) == cell # "(("
\* Line 75: the cell is handed to parse_expr as read_csv typed it; a float is
\* not text and parse_expr raises on it.
is_float(df, k) == \A j \in 1..Len(df.rows) : df.rows[j].expression = "1.0"
\* Lines 66-90: raised when the dataframe is None or a cell does not parse.
load_pareto_expressions(df) ==
    [ raised |-> ~df.loaded \/ (\E k \in 1..Len(df.rows) :
                                    \/ is_float(df, k)
                                    \/ ~Parses(df.rows[k].expression)),
      exprs  |-> [k \in 1..Len(df.rows) |-> df.rows[k].expression] ]

\* Feyn.complexity of a parsed expression.
complexity(expr) == IF expr = "x*y" THEN 3 ELSE 1

\* --------------------------------------------------- main loop: one problem
\* Lines 338-343 and 489-490: the next problem is analysed, or is excluded
\* (pb.eq_filename in EXCLUDED_IN_SRBENCH_EQS_FILENAMES); after the last
\* problem the loop is over.
StartProblem ==
    /\ pc = "problem"
    /\ i_eq < n_eqs(config)
    /\ pc' = "run"
    /\ i_trial' = 0
    /\ UNCHANGED << config, folders, i_eq, batch_vars, pareto_df, curves_df,
                    pb_folder, best_expr, run_result,
                    walk_vars, equivalence_report, warned, metric_log >>

ExcludedProblem ==
    /\ pc = "problem"
    /\ i_eq < n_eqs(config)
    /\ pc' = "save_detailed"
    /\ UNCHANGED << config, folders, i_eq, i_trial, batch_vars, pareto_df, curves_df,
                    pb_folder, best_expr, run_result, walk_vars, equivalence_report, warned, metric_log >>

EndOfLoop ==
    /\ pc = "problem"
    /\ i_eq = n_eqs(config)
    /\ pc' = "done"
    /\ UNCHANGED << config, folders, i_eq, i_trial, batch_vars, pareto_df, curves_df,
                    pb_folder, best_expr, run_result, walk_vars, equivalence_report, warned, metric_log >>

\* ------------------------------------------------------- main loop: one run
\* Line 374.
is_finished_within_batch(n_evals) == n_evals >= (MAX_N_EVALUATIONS - BATCH_SIZE)
is_finished(n_evals) == n_evals >= (MAX_N_EVALUATIONS - BATCH_SIZE - 1)

\* Lines 371-379: (n_evals, is_started, is_finished) of the curves data; the
\* except branch is taken when curves_df is None or has no row.
run_details(curves) ==
    IF ~curves.loaded \/ curves.rows = <<>>
    THEN [ N_EVALUATIONS |-> 0, STARTED |-> FALSE, FINISHED |-> FALSE ]
    ELSE LET n_evals == SumSeq([k \in 1..Len(curves.rows) |-> curves.rows[k].n_rewarded])
         IN  [ N_EVALUATIONS |-> n_evals,
               STARTED       |-> Last(curves.rows).epoch >= 0,
               FINISHED      |-> is_finished(n_evals) ]

\* Line 390: whether the run is listed in the unfinished jobs.
lists_job(finished) == ~finished

\* utils.make_jobfile_from_command_list: the file holds the given commands.
make_jobfile_from_command_list(commands) == commands

\* Line 249: sub in s, for sequences of characters.
Contains(sub, s) ==
    \E k \in 0..(Len(s) - Len(sub)) : SubSeq(s, k + 1, k + Len(sub)) = sub

\* Line 249: the folders of the listing that match the prefix.
matches(prefix, listing) == { f \in listing : Contains(prefix, f) }

\* Lines 249-260: the folder of which the files are read, the first match of
\* the listing, or none.
load_run_data_folder(prefix, listing) ==
    IF matches(prefix, listing) # {} THEN matches(prefix, listing) ELSE {NoFolder}

\* Lines 263-274: what read_csv gives for a file of the folder; None when
\* the path is None or the file cannot be read.
read_csv(folder, contents) == IF folder = NoFolder THEN {NotLoaded} ELSE contents

\* Lines 347-425: run data loaded, settings and run details logged, the
\* unfinished job listed, the symbolic results extracted.  A front that is
\* loaded but gives no best expression raises ValueError (line 407).
LoadAndLog ==
    /\ pc = "run"
    /\ \E folder \in load_run_data_folder(pb_folder_prefix(i_eq, i_trial), folders) :
       \E front \in read_csv(folder, Fronts(config)),
          curves \in read_csv(folder, Curves(config)),
          simplify \in SimplifyOutcomes(config) :
        LET noise_lvl == NOISE_LVL(config)
            run_settings ==
                [ algorithm    |-> ALGORITHM,
                  data_group   |-> DATA_GROUP,
                  dataset      |-> SRBench_name(i_eq),
                  EQ_NB        |-> i_eq,
                  random_state |-> i_trial,
                  target_noise |-> noise_lvl,
                  true_model   |-> true_model(i_eq) ]
            details == run_details(curves)
            jobs == IF lists_job(details.FINISHED)
                    THEN Append(unfinished_jobs, Command(i_eq, i_trial, noise_lvl))
                    ELSE unfinished_jobs
            loaded == load_pareto_expressions(front)
            \* pareto_expressions[-1] raises on an empty list
            no_best == loaded.raised \/ front.rows = <<>>
            new_best == IF no_best THEN best_expr ELSE Last(loaded.exprs)
            \* clean_sympy_expr(best_expr) raises NameError while best_expr is unbound
            simplified_ok == new_best # "undefined" /\ simplify = "ok"
            symbolic_result ==
                [ symbolic_model            |-> IF no_best THEN "" ELSE new_best,
                  model_size                |-> IF no_best THEN 0 ELSE complexity(new_best),
                  simplified_symbolic_model |-> IF simplified_ok THEN new_best ELSE "",
                  simplified_complexity     |-> IF simplified_ok THEN complexity(new_best) ELSE 0 ]
        IN  /\ pb_folder' = folder
            /\ pareto_df' = front
            /\ curves_df' = curves
            /\ metric_log' = NoLog
            /\ unfinished_jobs' = jobs
            /\ jobfile' = IF lists_job(details.FINISHED)
                          THEN make_jobfile_from_command_list(jobs)
                          ELSE jobfile
            /\ IF no_best /\ front.loaded
               THEN /\ pc' = "aborted"
                    /\ UNCHANGED << best_expr, run_result >>
               ELSE /\ pc' = "equivalence"
                    /\ best_expr' = new_best
                    /\ run_result' = run_settings @@ details @@ symbolic_result
    /\ UNCHANGED << config, folders, i_eq, i_trial, all_results, results_detailed,
                    results_summary, results_essential, walk_vars,
                    equivalence_report, warned >>

\* ------------------------------------------------------ assess_equivalence
\* Line 139: only assessing symbolic equivalence if reward is above threshold.
above_R_LIM_inclusive(r) == r >= R_LIM
above_R_LIM(r) == r > R_LIM

\* Lines 163-164: if equivalent no need to check further down the front.
breaks_never(is_equivalent) == FALSE
breaks(is_equivalent) == is_equivalent

\* Lines 199-202: the report returned when no expression is equivalent
\* (python index 0).
negative_choice_last(reports) == Len(reports)
negative_choice(reports) == 1

Invoked(ev) == ev.kind # "skipped"
Event(row, kind) == [row |-> row, kind |-> kind]

\* The position after row i has been dealt with: the next row down, or the
\* end of the loop.
NextRow == /\ i' = i - 1
           /\ pc' = IF i - 1 = 0 THEN "select" ELSE "walk"

\* Line 431 and lines 119-130: the front is loaded, the walk starts at the
\* last row.
EnterAssessEquivalence ==
    /\ pc = "equivalence"
    /\ pareto_df.loaded
    /\ i' = Len(pareto_df.rows)
    /\ equivalence_list' = <<>>
    /\ report_list' = <<>>
    /\ events' = <<>>
    /\ pc' = IF Len(pareto_df.rows) = 0 THEN "select" ELSE "walk"
    /\ UNCHANGED << config, folders, i_eq, i_trial, batch_vars, pareto_df, curves_df,
                    pb_folder, best_expr, run_result, equivalence_report, warned, metric_log >>

\* Lines 139-145: the reward is above the threshold, timed_compare_expr is
\* called.
StartCheck ==
    /\ pc = "walk"
    /\ above_R_LIM(pareto_df.rows[i].reward)
    /\ pc' = "checking"
    /\ UNCHANGED << config, folders, i_eq, i_trial, batch_vars, pareto_df, curves_df,
                    pb_folder, best_expr, run_result, walk_vars, equivalence_report, warned, metric_log >>

\* Lines 166-180: the reward is not above the threshold.
SkipLowReward ==
    /\ pc = "walk"
    /\ ~above_R_LIM(pareto_df.rows[i].reward)
    /\ equivalence_list' = Append(equivalence_list, FALSE)
    /\ report_list' = Append(report_list, LowRewardReport)
    /\ events' = Append(events, Event(i, "skipped"))
    /\ NextRow
    /\ UNCHANGED << config, folders, i_eq, i_trial, batch_vars, pareto_df, curves_df,
                    pb_folder, best_expr, run_result, equivalence_report, warned, metric_log >>

\* Lines 143-145 and 159-164: timed_compare_expr returns within its bound.
CheckerReturns ==
    /\ pc = "checking"
    /\ \E report \in CompareReports :
        LET is_equivalent == report.symbolic_solution
        IN  /\ equivalence_list' = Append(equivalence_list, is_equivalent)
            /\ report_list' = Append(report_list, report)
            /\ events' = Append(events, Event(i, "returned"))
            /\ IF breaks(is_equivalent)
               THEN /\ pc' = "select"
                    /\ i' = i
               ELSE NextRow
    /\ UNCHANGED << config, folders, i_eq, i_trial, batch_vars, pareto_df, curves_df,
                    pb_folder, best_expr, run_result, equivalence_report, warned, metric_log >>

\* Lines 93-95 and 146-164: timed_compare_expr raises, because its 20 s bound
\* expired or because the comparison failed; the bare except takes both.
CheckerRaises ==
    /\ pc = "checking"
    /\ \E kind \in RaiseKinds :
        events' = Append(events, Event(i, kind))
    /\ equivalence_list' = Append(equivalence_list, FALSE)
    /\ report_list' = Append(report_list, ExceptReport)
    /\ NextRow
    /\ UNCHANGED << config, folders, i_eq, i_trial, batch_vars, pareto_df, curves_df,
                    pb_folder, best_expr, run_result, equivalence_report, warned, metric_log >>

\* Lines 193-194: the warning is emitted when the equivalent expression is
\* not the first of the list (python index 0).
warns_on_any_match(i_equivalent) == TRUE
warns(i_equivalent) == i_equivalent # 1

\* Index of the first TRUE of a list of verdicts, 0 when there is none.
RECURSIVE first_true(_, _)
first_true(list, k) ==
    IF k > Len(list) THEN 0
    ELSE IF list[k] THEN k ELSE first_true(list, k + 1)

\* Lines 186-204 and line 431: the result of assess_equivalence, of which the
\* main loop keeps the report.  Indexing an empty list raises.
SelectResult ==
    /\ pc = "select"
    /\ LET i_equivalent == first_true(equivalence_list, 1)
       IN  IF equivalence_list = <<>>
           THEN /\ pc' = "aborted"
                /\ UNCHANGED << equivalence_report, warned >>
           ELSE /\ pc' = "metrics"
                /\ IF i_equivalent # 0
                   THEN /\ warned' = warns(i_equivalent)
                        /\ equivalence_report' = report_list[i_equivalent]
                   ELSE /\ warned' = FALSE
                        /\ equivalence_report' = report_list[negative_choice(report_list)]
    /\ UNCHANGED << config, folders, i_eq, i_trial, batch_vars, pareto_df, curves_df,
                    pb_folder, best_expr, run_result, walk_vars, metric_log >>

\* Lines 432-441: the front could not be loaded.
NoFront ==
    /\ pc = "equivalence"
    /\ ~pareto_df.loaded
    /\ equivalence_report' = NoFrontReport
    /\ pc' = "metrics"
    /\ UNCHANGED << config, folders, i_eq, i_trial, batch_vars, pareto_df, curves_df,
                    pb_folder, best_expr, run_result, walk_vars, warned, metric_log >>

\* ---------------------------------------------------------- numeric accuracy
Finite(v) == [inf |-> FALSE, v |-> v]
Infinite == [inf |-> TRUE, v |-> 0]

\* Lines 447-477: a metric that is not a number, or whose evaluation raises,
\* is replaced: np.inf for the errors, 0. for the R2 scores.
error_metric_of_exceptions(outcome, v) == IF outcome = "raise" THEN Infinite ELSE Finite(v)
error_metric(outcome, v) == IF outcome = "value" THEN Finite(v) ELSE Infinite
score_metric(outcome, v) == IF outcome = "value" THEN v ELSE 0

\* The position after a run: the next trial, or the checkpoint of the problem.
after_run_checkpoint(trial, c) == "save_detailed"
after_run(trial, c) == IF trial + 1 < n_trials(c) THEN "run" ELSE "save_detailed"

\* Lines 445-488: the four test metrics, then the run record is appended.
\* assess_metric_test raises when the front is None.  The variables of the
\* run are not read again before LoadAndLog assigns them: they are reset.
MetricsAndAppend ==
    /\ pc = "metrics"
    /\ \E o \in [Metrics ->
                    IF pareto_df.loaded THEN MetricOutcomes(config) ELSE {"raise"}] :
        LET numeric_result ==
                [ mse_test     |-> error_metric(o["mse"], 4),
                  mae_test     |-> error_metric(o["mae"], 2),
                  r2_test      |-> score_metric(o["r2"], 90),
                  r2_zero_test |-> score_metric(o["r2_zero"], 80) ]
        IN  /\ all_results' = Append(all_results,
                                     run_result @@ equivalence_report @@ numeric_result)
            /\ metric_log' = [ front |-> pareto_df.loaded, outcome |-> o ]
    /\ i_trial' = i_trial + 1
    /\ pc' = after_run(i_trial, config)
    /\ pareto_df' = NotLoaded
    /\ curves_df' = NotLoaded
    /\ pb_folder' = NoFolder
    /\ run_result' = NoRecord
    /\ equivalence_report' = NoReport
    /\ i' = 0
    /\ equivalence_list' = <<>>
    /\ report_list' = <<>>
    /\ events' = <<>>
    /\ warned' = FALSE
    /\ UNCHANGED << config, folders, i_eq, unfinished_jobs, jobfile, results_detailed,
                    results_summary, results_essential, best_expr >>

\* -------------------------------------------------------------- aggregation
\* columns_to_aggregate_on (lines 288-322).
group_key(r) ==
    << r.algorithm, r.data_group, r.dataset, r.EQ_NB, r.target_noise, r.true_model >>

RECURSIVE group_of(_, _)
\* The records of the group of a key, in the order of the table.
group_of(records, key) ==
    IF records = <<>> THEN <<>>
    ELSE (IF group_key(records[1]) = key THEN <<records[1]>> ELSE <<>>)
         \o group_of(Tail(records), key)

RECURSIVE keys_of(_, _)
\* The distinct keys of the records, in order of first appearance.
keys_of(records, seen) ==
    IF records = <<>> THEN <<>>
    ELSE IF group_key(records[1]) \in seen
         THEN keys_of(Tail(records), seen)
         ELSE <<group_key(records[1])>>
              \o keys_of(Tail(records), seen \cup {group_key(records[1])})

Column(group, name) == [k \in 1..Len(group) |-> group[k][name]]
Flags(group, name) == [k \in 1..Len(group) |-> IF group[k][name] THEN 1 ELSE 0]

\* np.sum, np.mean and np.median of a column of a group.
np_sum(values) == SumSeq(values)
np_mean(values) == Frac(SumSeq(values), Len(values))
np_median(values) ==
    LET sorted == Sort(values)
        n == Len(values)
    IN  IF n % 2 = 1
        THEN Frac(sorted[(n + 1) \div 2], 1)
        ELSE Frac(sorted[n \div 2] + sorted[n \div 2 + 1], 2)

\* The aggregation methods of the flags (np.sum) and of the verdict (np.mean).
flags_total(group, name) == np_sum(Flags(group, name))
solution_total(group) == Frac(np_sum(Flags(group, "symbolic_solution")), 1)
solution_rate(group) == np_mean(Flags(group, "symbolic_solution"))

\* columns_aggregation_methods (lines 288-323) applied to one group, for the
\* key columns and the columns of the essential table.
aggregate_group(key, group) ==
    [ algorithm         |-> key[1],
      data_group        |-> key[2],
      dataset           |-> key[3],
      EQ_NB             |-> key[4],
      target_noise      |-> key[5],
      true_model        |-> key[6],
      N_EVALUATIONS     |-> np_sum(Column(group, "N_EVALUATIONS")),
      STARTED           |-> flags_total(group, "STARTED"),
      FINISHED          |-> flags_total(group, "FINISHED"),
      model_size        |-> np_mean(Column(group, "model_size")),
      simplified_complexity |-> np_mean(Column(group, "simplified_complexity")),
      symbolic_solution |-> solution_rate(group),
      r2_test           |-> np_median(Column(group, "r2_test")),
      r2_zero_test      |-> np_median(Column(group, "r2_zero_test")) ]

RECURSIVE insert_row(_, _)
insert_row(row, rows) ==
    IF rows = <<>> THEN <<row>>
    ELSE IF row.EQ_NB < rows[1].EQ_NB THEN <<row>> \o rows
    ELSE <<rows[1]>> \o insert_row(row, Tail(rows))

RECURSIVE sort_index(_)
\* set_index(EQ NB).sort_index() of line 496.
sort_index(rows) ==
    IF rows = <<>> THEN <<>> ELSE insert_row(rows[1], sort_index(Tail(rows)))

\* Lines 495-496: groupby(columns_to_aggregate_on).aggregate(...), indexed and
\* sorted by EQ NB.
aggregate_appending(records) ==
    results_summary \o
    sort_index([k \in 1..Len(keys_of(records, {})) |->
                    aggregate_group(keys_of(records, {})[k],
                                    group_of(records, keys_of(records, {})[k]))])
aggregate(records) ==
    LET keys == keys_of(records, {})
    IN  sort_index([k \in 1..Len(keys) |->
                        aggregate_group(keys[k], group_of(records, keys[k]))])

\* Line 499: the columns of the essential table.
essential(rows) ==
    [k \in 1..Len(rows) |->
        [ EQ_NB             |-> rows[k].EQ_NB,
          N_EVALUATIONS     |-> rows[k].N_EVALUATIONS,
          STARTED           |-> rows[k].STARTED,
          FINISHED          |-> rows[k].FINISHED,
          symbolic_solution |-> rows[k].symbolic_solution,
          r2_test           |-> rows[k].r2_test,
          r2_zero_test      |-> rows[k].r2_zero_test ]]

\* --------------------------------------------------------------- checkpoint
\* Lines 492-493: results_df is built from all_results and saved.
SaveDetailed ==
    /\ pc = "save_detailed"
    /\ results_detailed' = all_results
    /\ pc' = "save_summary"
    /\ metric_log' = NoLog
    /\ UNCHANGED << config, folders, i_eq, i_trial, all_results, unfinished_jobs, jobfile,
                    results_summary, results_essential, pareto_df, curves_df,
                    pb_folder, best_expr, run_result, walk_vars,
                    equivalence_report, warned >>

\* Lines 495-497: the summary is computed from results_df and saved.  With no
\* run record yet, results_df has no column and groupby raises KeyError.
SaveSummary ==
    /\ pc = "save_summary"
    /\ IF all_results = <<>>
       THEN /\ pc' = "aborted"
            /\ UNCHANGED results_summary
       ELSE /\ pc' = "save_essential"
            /\ results_summary' = aggregate(all_results)
    /\ UNCHANGED << config, folders, i_eq, i_trial, all_results, unfinished_jobs, jobfile,
                    results_detailed, results_essential, pareto_df, curves_df,
                    pb_folder, best_expr, run_result, walk_vars,
                    equivalence_report, warned, metric_log >>

\* Lines 499-500: the essential columns of results_agg_df are saved; the
\* iteration over the problems goes on.
SaveEssential ==
    /\ pc = "save_essential"
    /\ results_essential' = essential(results_summary)
    /\ i_eq' = i_eq + 1
    /\ pc' = "problem"
    /\ UNCHANGED << config, folders, i_trial, all_results, unfinished_jobs, jobfile,
                    results_detailed, results_summary, pareto_df, curves_df,
                    pb_folder, best_expr, run_result, walk_vars,
                    equivalence_report, warned, metric_log >>

Next ==
    \/ StartProblem
    \/ ExcludedProblem
    \/ EndOfLoop
    \/ LoadAndLog
    \/ EnterAssessEquivalence
    \/ StartCheck
    \/ SkipLowReward
    \/ CheckerReturns
    \/ CheckerRaises
    \/ SelectResult
    \/ NoFront
    \/ MetricsAndAppend
    \/ SaveDetailed
    \/ SaveSummary
    \/ SaveEssential

Spec == Init /\ [][Next]_vars

\* ==================================================================== claims
Reward(row) == pareto_df.rows[row].reward
NoneEquivalent == \A k \in 1..Len(equivalence_list) : ~equivalence_list[k]
\* Number of calls of timed_compare_expr made so far in the run.
CheckerInvocations ==
    Cardinality({k \in 1..Len(events) : Invoked(events[k])})
    + (IF pc = "checking" THEN 1 ELSE 0)
\* assess_equivalence has returned to the main loop.
Assessed == pc = "metrics" /\ pareto_df.loaded

\* C1: the checker is invoked on a candidate only if its reward is above 0.6
\* and no more complex candidate has given a positive verdict; a positive
\* verdict ends the walk, so a 3-candidate front whose most complex candidate
\* is equivalent costs at most one invocation.
C1_ShortCircuit ==
    /\ \A k \in 1..Len(events) :
          Invoked(events[k]) =>
              /\ Reward(events[k].row) > R_LIM
              /\ \A j \in 1..(k - 1) : ~equivalence_list[j]
    /\ pc = "checking" => (Reward(i) > R_LIM /\ NoneEquivalent)
    /\ \A k \in 1..Len(equivalence_list) :
          equivalence_list[k] => (k = Len(equivalence_list) /\ pc \in {"select", "metrics"})
    /\ (Len(pareto_df.rows) = 3 /\ equivalence_list # <<>> /\ equivalence_list[1])
          => CheckerInvocations <= 1

C1_Witness ==
    /\ Assessed
    /\ Len(pareto_df.rows) = 3
    /\ \A k \in 1..3 : Reward(k) > R_LIM
    /\ equivalence_list = <<TRUE>>
    /\ events = << Event(3, "returned") >>

\* C2: a candidate whose reward is <= 0.6 (0.6 included) gets a negative
\* verdict tagged "LowReward" and no checker invocation; a front whose
\* candidates all have such a reward returns that report with no invocation.
C2_LowRewardSkipped ==
    /\ \A k \in 1..Len(events) :
          Reward(events[k].row) <= R_LIM =>
              /\ events[k].kind = "skipped"
              /\ equivalence_list[k] = FALSE
              /\ report_list[k] = NegativeReport("LowReward")
    /\ pc = "checking" => Reward(i) > R_LIM
    /\ (Assessed /\ \A k \in 1..Len(pareto_df.rows) : Reward(k) <= R_LIM)
          => /\ equivalence_report = NegativeReport("LowReward")
             /\ equivalence_report.symbolic_solution = FALSE
             /\ CheckerInvocations = 0
             /\ Len(events) = Len(pareto_df.rows)

C2_Witness ==
    /\ Assessed
    /\ Len(pareto_df.rows) >= 2
    /\ \A k \in 1..Len(pareto_df.rows) : Reward(k) <= R_LIM
    /\ \E k \in 1..Len(pareto_df.rows) : Reward(k) = R_LIM
    /\ equivalence_report.sympy_exception = "LowReward"

\* C3, as stated: with no equivalent candidate the report returned is the
\* last one computed, that of the least complex candidate.
C3_ReturnsLastComputed ==
    (Assessed /\ NoneEquivalent) => equivalence_report = Last(report_list)

\* C3, amended: with no equivalent candidate the verdict is negative and the
\* report returned is the first one computed, that of the most complex
\* candidate (the first row reached by the walk).
C3_ReturnsFirstComputed ==
    (Assessed /\ NoneEquivalent) =>
        /\ equivalence_report = report_list[1]
        /\ events[1].row = Len(pareto_df.rows)
        /\ equivalence_report.symbolic_solution = FALSE
        /\ Len(report_list) = Len(pareto_df.rows)

C3_Witness ==
    /\ Assessed
    /\ NoneEquivalent
    /\ Len(report_list) = 3
    /\ report_list[1] # report_list[3]
    /\ equivalence_report = report_list[1]

\* C4: a check that exceeds its time bound is recorded as verdict false with
\* the report tagged "Timeout", empty symbolic_error and symbolic_fraction and
\* None sub-flags; it aborts nothing, the walk goes on with the next
\* candidate, and a check in progress can always be ended by the bound.
C4_TimeoutRecorded ==
    /\ \A k \in 1..Len(events) :
          events[k].kind = "timeout" =>
              /\ equivalence_list[k] = FALSE
              /\ report_list[k] = NegativeReport("Timeout")
    /\ pc = "aborted" => events = <<>>
    /\ (events # <<>> /\ Last(events).kind = "timeout") =>
          /\ i = Last(events).row - 1
          /\ pc \in (IF i = 0 THEN {"select", "metrics"} ELSE {"walk", "checking"})
    /\ pc = "checking" => ENABLED CheckerRaises

C4_Witness ==
    /\ Assessed
    /\ Len(events) >= 2
    /\ events[1].kind = "timeout"
    /\ equivalence_report = NegativeReport("Timeout")

\* C5, as stated: the tag "Timeout" is recorded only for checks that timed
\* out; a check that failed otherwise has a tag of its own.
C5_TimeoutTagOnlyForTimeouts ==
    \A k \in 1..Len(events) :
        report_list[k].sympy_exception = "Timeout" => events[k].kind = "timeout"

\* C6, as stated: a run whose front could not be loaded gets the canonical
\* negative report tagged "NoFrontFile", the checker not being invoked.
C6_NoFrontFileTag ==
    (pc = "metrics" /\ ~pareto_df.loaded) =>
        /\ equivalence_report = NegativeReport("NoFrontFile")
        /\ CheckerInvocations = 0

\* C6, amended: a run whose front could not be loaded gets the canonical
\* negative report tagged "NoParetoFrontFile", the checker not being invoked,
\* and its run record carries that report.
C6_NoParetoFrontFileTag ==
    /\ (pc = "metrics" /\ ~pareto_df.loaded) =>
          /\ equivalence_report = NegativeReport("NoParetoFrontFile")
          /\ CheckerInvocations = 0
    /\ pc \in {"walk", "checking", "select"} => pareto_df.loaded
    /\ \A k \in 1..Len(all_results) :
          all_results[k].symbolic_model = "" =>
              /\ all_results[k].sympy_exception = "NoParetoFrontFile"
              /\ all_results[k].symbolic_solution = FALSE
              /\ all_results[k].symbolic_error = ""
              /\ all_results[k].symbolic_fraction = ""
              /\ all_results[k].symbolic_error_is_zero = "None"
              /\ all_results[k].symbolic_error_is_constant = "None"
              /\ all_results[k].symbolic_fraction_is_constant = "None"

C6_Witness ==
    /\ all_results # <<>>
    /\ Last(all_results).symbolic_model = ""
    /\ Last(all_results).sympy_exception = "NoParetoFrontFile"

\* ------------------------------------------------- claims about the outputs
RECURSIVE unfinished_commands(_)
\* The re-launch commands of the unfinished runs of a table, in its order.
unfinished_commands(records) ==
    IF records = <<>> THEN <<>>
    ELSE (IF records[1].FINISHED THEN <<>>
          ELSE << Command(records[1].EQ_NB, records[1].random_state,
                          records[1].target_noise) >>)
         \o unfinished_commands(Tail(records))

\* No run is being analysed: the last run record has just been appended.
BetweenRuns == pc \in {"run", "problem", "save_detailed", "save_summary",
                       "save_essential", "done"}

\* C7, as stated: after every processed run the unfinished-jobs file holds
\* exactly one command per unfinished run processed so far and none for a
\* finished run, whatever the file held before.
C7_JobfileListsUnfinished ==
    (all_results # <<>> /\ BetweenRuns) => jobfile = unfinished_commands(all_results)

\* Every trial of problem eq has been analysed.
ProblemProcessed(eq) == eq < i_eq \/ (eq = i_eq /\ pc \in {"save_detailed", "save_summary", "save_essential"})
\* The tables written so far cover problem eq.
InDetailed(eq) == eq < i_eq \/ (eq = i_eq /\ pc \in {"save_summary", "save_essential"})
InSummary(eq) == eq < i_eq \/ (eq = i_eq /\ pc = "save_essential")
RunsOf(records, eq) == {k \in 1..Len(records) : records[k].EQ_NB = eq}

\* C8, as stated: every persisted output holds fully processed problems
\* only, and the unfinished-jobs file lists exactly the unfinished runs of
\* the persisted detailed table.
C8_OutputsMutuallyConsistent ==
    unfinished_jobs # <<>> =>
        /\ jobfile = unfinished_commands(results_detailed)
        /\ \A k \in 1..Len(jobfile) : ProblemProcessed(jobfile[k].i)

\* C8, amended: the detailed, summary and essential tables hold fully
\* processed problems only, each with all of its trials; the unfinished-jobs
\* file is not covered, it is rewritten inside a problem.
C8_TablesHoldProcessedProblems ==
    /\ \A k \in 1..Len(results_detailed) :
          /\ InDetailed(results_detailed[k].EQ_NB)
          /\ Cardinality(RunsOf(results_detailed, results_detailed[k].EQ_NB))
                = n_trials(config)
    /\ \A k \in 1..Len(results_summary) :
          /\ InSummary(results_summary[k].EQ_NB)
          /\ results_summary[k].STARTED <= n_trials(config)
    /\ \A k \in 1..Len(results_essential) : results_essential[k].EQ_NB < i_eq

\* The tables hold problem 0 only while the file lists a run of problem 1.
C8_Witness ==
    /\ pc = "run"
    /\ i_eq = 1
    /\ i_trial = 1
    /\ Len(results_detailed) = n_trials(config)
    /\ Len(results_essential) = 1
    /\ \E k \in 1..Len(jobfile) : jobfile[k].i = 1

RECURSIVE SumOver(_, _, _)
\* Sum of a column over the records of a set of indices.
SumOver(records, S, name) ==
    IF S = {} THEN 0
    ELSE LET k == CHOOSE x \in S : TRUE
         IN  records[k][name] + SumOver(records, S \ {k}, name)

\* The records of a table that a summary row stands for.
Members(records, row) ==
    { k \in 1..Len(records) :
        /\ records[k].algorithm = row.algorithm
        /\ records[k].data_group = row.data_group
        /\ records[k].dataset = row.dataset
        /\ records[k].EQ_NB = row.EQ_NB
        /\ records[k].target_noise = row.target_noise
        /\ records[k].true_model = row.true_model }

\* The summary is the one computed from the detailed table on disk.
SummaryWritten == pc # "save_summary" /\ results_summary # <<>>

\* C9: records are grouped on the six key columns; per group the evaluations,
\* STARTED and FINISHED are the sums over its runs and symbolic_solution is
\* the fraction of its runs whose verdict is true.
C9_GroupTotals ==
    SummaryWritten =>
        /\ \A k \in 1..Len(results_detailed) :
              Cardinality({r \in 1..Len(results_summary) :
                              k \in Members(results_detailed, results_summary[r])}) = 1
        /\ \A r \in 1..Len(results_summary) :
              LET row == results_summary[r]
                  M == Members(results_detailed, row)
              IN  /\ M # {}
                  /\ row.N_EVALUATIONS = SumOver(results_detailed, M, "N_EVALUATIONS")
                  /\ row.STARTED = Cardinality({k \in M : results_detailed[k].STARTED})
                  /\ row.FINISHED = Cardinality({k \in M : results_detailed[k].FINISHED})
                  /\ row.symbolic_solution.num * Cardinality(M)
                        = Cardinality({k \in M : results_detailed[k].symbolic_solution})
                          * row.symbolic_solution.den

\* Two trials of one problem, one finished and equivalent, one not started:
\* recovery fraction 1/2, finished total 1, one command in the file.
C9_Witness ==
    /\ SummaryWritten
    /\ Len(results_detailed) = 2
    /\ results_detailed[1].FINISHED /\ results_detailed[1].symbolic_solution
    /\ ~results_detailed[2].STARTED
    /\ results_summary[1].symbolic_solution = [num |-> 1, den |-> 2]
    /\ results_summary[1].FINISHED = 1
    /\ results_essential # <<>>
    /\ results_essential[1].FINISHED = 1
    /\ jobfile = << Command(0, 1, 0) >>

\* A checkpoint has just been completed.
CheckpointDone == pc \in {"problem", "done"} /\ i_eq > 0

\* C10: at a checkpoint the summary and essential tables are determined by
\* the run records of the detailed table written at that checkpoint: one row
\* per group, in the order of EQ NB, each the aggregate of its group, the
\* essential table its projection, nothing kept from an earlier checkpoint.
C10_TablesRecomputed ==
    CheckpointDone =>
        /\ results_detailed = all_results
        /\ \A k \in 1..Len(results_detailed) :
              \E r \in 1..Len(results_summary) :
                  k \in Members(results_detailed, results_summary[r])
        /\ \A r \in 1..Len(results_summary) :
              LET row == results_summary[r]
                  key == << row.algorithm, row.data_group, row.dataset, row.EQ_NB,
                            row.target_noise, row.true_model >>
              IN  /\ row = aggregate_group(key, group_of(results_detailed, key))
                  /\ r > 1 => results_summary[r - 1].EQ_NB < row.EQ_NB
        /\ Len(results_essential) = Len(results_summary)
        /\ \A r \in 1..Len(results_essential) :
              \A name \in DOMAIN results_essential[r] :
                  results_essential[r][name] = results_summary[r][name]

\* The second checkpoint of a batch: two problems, two rows.
C10_Witness ==
    /\ CheckpointDone
    /\ i_eq = 2
    /\ Len(results_summary) = 2
    /\ Len(results_detailed) = 4

\* ------------------------------------------------- claims about the warning
\* C15: the warning "Equivalent expression was not the most Pareto accurate
\* one" is emitted exactly when a positive verdict is returned for a candidate
\* that is not the most complex one, i.e. when a more complex candidate was
\* examined before it (checked or skipped); the result returned is the report
\* of the matching candidate whether the warning is emitted or not.
C15_WarningOnLaterMatch ==
    /\ Assessed =>
          /\ warned <=> (/\ equivalence_report.symbolic_solution
                         /\ Last(events).row # Len(pareto_df.rows))
          /\ warned <=> (/\ ~NoneEquivalent
                         /\ Len(events) >= 2
                         /\ \A k \in 1..(Len(events) - 1) : events[k].row > Last(events).row)
          /\ (~NoneEquivalent) =>
                /\ equivalence_report = Last(report_list)
                /\ equivalence_report.symbolic_solution
    /\ (~Assessed) => ~warned

\* The most complex candidate was skipped for its reward, the next one matched.
C15_Witness ==
    /\ Assessed
    /\ warned
    /\ Len(events) = 2
    /\ events[1].kind = "skipped"
    /\ events[2].kind = "returned"
    /\ equivalence_report.symbolic_solution

\* ---------------------------------------------------------------- C12
\* The run details are logged and the run is still being analysed.
RunLogged == pc \in {"equivalence", "walk", "checking", "select", "metrics"}

\* The rewarded evaluations counted in the curves data.
RewardedEvaluations ==
    SumSeq([k \in 1..Len(curves_df.rows) |-> curves_df.rows[k].n_rewarded])

\* Curves data that give no run details: no dataframe, or one without rows.
NoCurves == ~curves_df.loaded \/ curves_df.rows = <<>>

\* C12 as stated: a run with loadable curve data is FINISHED exactly when
\* n_evals >= MAX_N_EVALUATIONS - batch_size; with missing or unreadable
\* curve data n_evals = 0, STARTED and FINISHED are false.
C12_FinishedWithinOneBatch ==
    RunLogged =>
        /\ (~NoCurves) =>
               (run_result.FINISHED <=>
                    RewardedEvaluations >= MAX_N_EVALUATIONS - BATCH_SIZE)
        /\ NoCurves =>
               /\ run_result.N_EVALUATIONS = 0
               /\ ~run_result.STARTED
               /\ ~run_result.FINISHED

\* C12 amended: a run with loadable curve data is FINISHED exactly when
\* n_evals >= MAX_N_EVALUATIONS - batch_size - 1, n_evals being the sum of
\* the n_rewarded column, and STARTED exactly when the last epoch is not
\* negative; with missing, unreadable or row-less curve data n_evals = 0,
\* STARTED and FINISHED are false.
C12_FinishedWithinOneBatchAndOne ==
    RunLogged =>
        /\ (~NoCurves) =>
               /\ run_result.N_EVALUATIONS = RewardedEvaluations
               /\ run_result.FINISHED <=>
                      RewardedEvaluations >= MAX_N_EVALUATIONS - BATCH_SIZE - 1
               /\ run_result.STARTED <=> Last(curves_df.rows).epoch >= 0
        /\ NoCurves =>
               /\ run_result.N_EVALUATIONS = 0
               /\ ~run_result.STARTED
               /\ ~run_result.FINISHED

\* A run one evaluation short of the budget less one batch is FINISHED.
C12_Witness ==
    /\ RunLogged
    /\ ~NoCurves
    /\ RewardedEvaluations = MAX_N_EVALUATIONS - BATCH_SIZE - 1
    /\ run_result.FINISHED

\* ---------------------------------------------------------------- C13
\* The metrics of a run were evaluated and its record is the last of the list.
MetricsRecorded == metric_log # NoLog

\* C13: every metric whose evaluation gives not-a-number or raises, as all
\* four do when the front is missing, is recorded as +infinity (mse_test,
\* mae_test) or 0 (r2_test, r2_zero_test), a metric that evaluates to a
\* number is recorded as that number, and the evaluation of the metrics
\* raises nothing: the record is appended and the script goes on.
C13_MetricsNeverNaN ==
    /\ pc = "metrics" => ENABLED MetricsAndAppend
    /\ MetricsRecorded =>
          LET r == Last(all_results)
              o == metric_log.outcome
          IN  /\ pc \in {"run", "save_detailed"}
              /\ r.mse_test = (IF o["mse"] = "value" THEN Finite(4) ELSE Infinite)
              /\ r.mae_test = (IF o["mae"] = "value" THEN Finite(2) ELSE Infinite)
              /\ r.r2_test = (IF o["r2"] = "value" THEN 90 ELSE 0)
              /\ r.r2_zero_test = (IF o["r2_zero"] = "value" THEN 80 ELSE 0)
              /\ (~metric_log.front) =>
                    /\ r.mse_test = Infinite /\ r.mae_test = Infinite
                    /\ r.r2_test = 0 /\ r.r2_zero_test = 0

\* A run of which mse_test is not-a-number and the evaluation of r2_test
\* raises, the two other metrics being numbers.
C13_Witness ==
    /\ MetricsRecorded
    /\ metric_log.front
    /\ metric_log.outcome["mse"] = "nan"
    /\ metric_log.outcome["r2"] = "raise"
    /\ metric_log.outcome["mae"] = "value"
    /\ Last(all_results).mse_test = Infinite
    /\ Last(all_results).r2_test = 0
    /\ Last(all_results).mae_test = Finite(2)

\* ---------------------------------------------------------------- C11
\* C11 as stated: whatever the artifacts of a run (no folder, no front file
\* or a malformed one, a front file without rows, an expression cell that
\* does not parse or is a bare number, no curve file), the script does not
\* stop in the run: the run gets its record and the batch goes on.
C11_NoDataFailureAborts ==
    /\ pareto_df.loaded => pc # "aborted"
    /\ pc = "run" => ENABLED LoadAndLog
    /\ pc = "metrics" => ENABLED MetricsAndAppend

\* ---------------------------------------------------------------- C14
\* s starts with prefix, for sequences of characters.
StartsWith(s, prefix) ==
    Len(s) >= Len(prefix) /\ SubSeq(s, 1, Len(prefix)) = prefix

\* C14 as stated: load_run_data never raises; the folder it reads from
\* starts with the prefix of the run and is the folder of that (problem,
\* trial); when no folder of the directory starts with the prefix, no folder
\* is read and both dataframes are None.
C14_ReadsOwnFolderOnly ==
    LET prefix == pb_folder_prefix(i_eq, i_trial)
    IN  /\ pc = "run" => ENABLED LoadAndLog
        /\ pb_folder # NoFolder =>
              /\ StartsWith(pb_folder, prefix)
              /\ pb_folder = run_folder(i_eq, i_trial)
        /\ (RunLogged /\ ~\E f \in folders : StartsWith(f, prefix)) =>
              /\ pb_folder = NoFolder
              /\ ~pareto_df.loaded
              /\ ~curves_df.loaded

====
